---- MODULE Spec2Model ----
(***************************************************************************)
(* A model of src/src/main.rs: the port/process snapshot pipeline          *)
(* (get_netstat_output, parse_netstat_output, match_processes_to_ports,    *)
(* save_process_info_to_file) followed by the event-log pipeline           *)
(* (query construction, fetch_and_parse_events, save_events_to_file).      *)
(*                                                                         *)
(* Text is modelled as a sequence of one-character strings, so that        *)
(* starts_with, split_whitespace, split(':') and str::parse are computed   *)
(* character by character as the standard library computes them.           *)
(***************************************************************************)
EXTENDS Integers, Sequences, FiniteSets, TLC

VARIABLES
    pc,                  \* position of main (or "panic" once the process aborted)
    netstat_output,      \* Vec<String> returned by get_netstat_output
    line_idx,            \* lines of netstat_output already consumed by the for loop
    process_ports,       \* Vec<(u16, i32)> built by parse_netstat_output
    processes,           \* system.processes(): pid -> OS name, after the refresh
    port_idx,            \* entries of process_ports already consumed by the for loop
    process_info_list,   \* Vec<ProcessInfo> built by match_processes_to_ports
    process_ports_json,  \* the file process_ports.json
    event_log,           \* the OS event log at the time of the query
    query,               \* the QueryList built by main
    fetch_result,        \* the Result of WinEvents::get: "none" before the call
    events,              \* the events WinEvents::get delivered
    event_idx,           \* events already consumed by the for loop
    extracted_events,    \* Vec<EventInfo> built by fetch_and_parse_events
    events_json,         \* the file events.json
    stderr,              \* diagnostics printed with eprintln! (and the panic message)
    stdout               \* lines printed with println!

vars == <<pc, netstat_output, line_idx, process_ports, processes, port_idx,
          process_info_list, process_ports_json, event_log, query, fetch_result,
          events, event_idx, extracted_events, events_json, stderr, stdout>>

(***************************************************************************)
(* Bounds of the model.                                                    *)
(***************************************************************************)
MaxLines == 2
MaxEntries == 3
MaxEvents == 2

(***************************************************************************)
(* Integer widths.                                                         *)
(***************************************************************************)
U16Max == 65535
I32Max == 2147483647
I32Min == (-2147483647) - 1
U32Max == I32Max      \* the largest value TLC's integers hold; see ParseU32

(***************************************************************************)
(* Text helpers.                                                           *)
(***************************************************************************)
SeqsUpTo(S, n) == UNION {[1..k -> S] : k \in 0..n}

DigitChars == {"0", "1", "2", "3", "4", "5", "6", "7", "8", "9"}

DigitVal(c) ==
    CASE c = "0" -> 0 [] c = "1" -> 1 [] c = "2" -> 2 [] c = "3" -> 3
      [] c = "4" -> 4 [] c = "5" -> 5 [] c = "6" -> 6 [] c = "7" -> 7
      [] c = "8" -> 8 [] c = "9" -> 9

\* char::is_whitespace for the characters of the model
IsWhitespace(c) == c \in {" ", "\t"}

\* str::starts_with
StartsWith(s, prefix) ==
    /\ Len(s) >= Len(prefix)
    /\ SubSeq(s, 1, Len(prefix)) = prefix

\* str::split_whitespace().collect(): the maximal runs of non-whitespace
RECURSIVE SplitWhitespaceFrom(_, _, _)
SplitWhitespaceFrom(s, i, cur) ==
    IF i > Len(s)
    THEN IF cur = <<>> THEN <<>> ELSE <<cur>>
    ELSE IF IsWhitespace(s[i])
         THEN IF cur = <<>>
              THEN SplitWhitespaceFrom(s, i + 1, <<>>)
              ELSE <<cur>> \o SplitWhitespaceFrom(s, i + 1, <<>>)
         ELSE SplitWhitespaceFrom(s, i + 1, Append(cur, s[i]))

SplitWhitespace(s) == SplitWhitespaceFrom(s, 1, <<>>)

\* a split that keeps the text after the FIRST ':' instead of the last one
SplitColonFirst(s) ==
    LET colons == {i \in 1..Len(s) : s[i] = ":"}
        first == IF colons = {} THEN 0
                 ELSE CHOOSE i \in colons : \A j \in colons : i <= j
    IN SubSeq(s, first + 1, Len(s))

\* str::split(':').last(): the text after the last ':' (the whole text when
\* there is none); split always yields at least one segment, so this is Some
SplitColonLast(s) ==
    LET colons == {i \in 1..Len(s) : s[i] = ":"}
        last == IF colons = {} THEN 0
                ELSE CHOOSE i \in colons : \A j \in colons : j <= i
    IN SubSeq(s, last + 1, Len(s))

Ok(v) == [ok |-> TRUE, val |-> v]
Err == [ok |-> FALSE, val |-> 0]

\* core::num from_str_radix, positive accumulation with checked_mul/checked_add
RECURSIVE ParseDigitsUp(_, _, _, _)
ParseDigitsUp(s, i, acc, max) ==
    IF i > Len(s) THEN Ok(acc)
    ELSE IF s[i] \notin DigitChars THEN Err
    ELSE IF acc > (max - DigitVal(s[i])) \div 10 THEN Err
    ELSE ParseDigitsUp(s, i + 1, acc * 10 + DigitVal(s[i]), max)

\* core::num from_str_radix, negative accumulation with checked_mul/checked_sub
RECURSIVE ParseDigitsDown(_, _, _, _)
ParseDigitsDown(s, i, acc, min) ==
    IF i > Len(s) THEN Ok(acc)
    ELSE IF s[i] \notin DigitChars THEN Err
    ELSE IF acc < (min + DigitVal(s[i]) + 9) \div 10 THEN Err
    ELSE ParseDigitsDown(s, i + 1, acc * 10 - DigitVal(s[i]), min)

\* <unsigned as FromStr>::from_str: empty, a lone sign, a '-' or a non-digit
\* is an error; a leading '+' is accepted
ParseUnsigned(s, max) ==
    IF s = <<>> THEN Err
    ELSE IF Len(s) = 1 /\ s[1] \in {"+", "-"} THEN Err
    ELSE IF s[1] = "+" THEN ParseDigitsUp(s, 2, 0, max)
    ELSE ParseDigitsUp(s, 1, 0, max)

ParseU16(s) == ParseUnsigned(s, U16Max)

\* u32::from_str. TLC's integers are 32-bit signed, so the model accepts the
\* values up to 2^31-1 only; the inputs of the model stay far below that.
ParseU32(s) == ParseUnsigned(s, U32Max)

\* i32::from_str: an optional sign, then digits, within the 32-bit range
ParseI32(s) ==
    IF s = <<>> THEN Err
    ELSE IF Len(s) = 1 /\ s[1] \in {"+", "-"} THEN Err
    ELSE IF s[1] = "+" THEN ParseDigitsUp(s, 2, 0, I32Max)
    ELSE IF s[1] = "-" THEN ParseDigitsDown(s, 2, 0, I32Min)
    ELSE ParseDigitsUp(s, 1, 0, I32Max)

Proto == <<"P", "r", "o", "t", "o">>

\* the body of the for loop of parse_netstat_output: the entries pushed for one line
ParseLine(line) ==
    IF StartsWith(line, Proto) \/ line = <<>>
    THEN <<>>
    ELSE LET parts == SplitWhitespace(line)
         IN IF Len(parts) >= 5
            THEN LET port == ParseU16(SplitColonLast(parts[2]))
                     pid == ParseI32(parts[5])
                 IN IF port.ok /\ pid.ok
                    THEN << <<port.val, pid.val>> >>
                    ELSE <<>>
            ELSE <<>>

(***************************************************************************)
(* Netstat output the model feeds to the parser.  A line is the text       *)
(*   <lead spaces><proto> <addr><port> 0.0.0.0:0 LISTENING <pid> [extra]   *)
(* with n fields (n = 4 drops the state column, as netstat does for UDP).  *)
(***************************************************************************)
TCP == <<"T", "C", "P">>
Addr4 == <<"1", ".", "2", ":">>
Addr6 == <<"[", ":", ":", "1", "]", ":">>
Foreign == <<"*", ":", "*">>
StateCol == <<"L">>
Extra == <<"x">>

\* decimal texts with the value each denotes
ValidPorts == {[text |-> <<"8", "0">>, val |-> 80],
               [text |-> <<"0">>, val |-> 0],
               [text |-> <<"6", "5", "5", "3", "5">>, val |-> 65535]}
ValidPids == {[text |-> <<"4">>, val |-> 4],
              [text |-> <<"-", "1">>, val |-> -1],
              [text |-> <<"2", "1", "4", "7", "4", "8", "3", "6", "4", "7">>,
               val |-> 2147483647]}
OtherPortTexts == {<<"6", "5", "5", "3", "6">>, <<"x">>, <<>>}
OtherPidTexts == {<<"2", "1", "4", "7", "4", "8", "3", "6", "4", "8">>, <<"x">>}
PortTexts == {v.text : v \in ValidPorts} \cup OtherPortTexts
PidTexts == {v.text : v \in ValidPids} \cup OtherPidTexts

Spaces(n) == [i \in 1..n |-> " "]

RECURSIVE JoinFields(_)
JoinFields(fs) ==
    IF fs = <<>> THEN <<>>
    ELSE IF Len(fs) = 1 THEN fs[1]
    ELSE fs[1] \o <<" ">> \o JoinFields(Tail(fs))

MkLine(lead, proto, addr, port, pid, n) ==
    Spaces(lead) \o
    JoinFields(IF n = 4 THEN <<proto, addr \o port, Foreign, pid>>
               ELSE IF n = 5 THEN <<proto, addr \o port, Foreign, StateCol, pid>>
               ELSE <<proto, addr \o port, Foreign, StateCol, pid, Extra>>)

LineSet ==
    {MkLine(l, p, a, <<"8", "0">>, <<"4">>, 5) :
        l \in 0..1, p \in {TCP, Proto}, a \in {Addr4, Addr6}}
    \cup {MkLine(1, TCP, Addr4, pt, pd, 5) : pt \in PortTexts, pd \in PidTexts}
    \cup {MkLine(1, TCP, Addr4, <<"8", "0">>, <<"4">>, n) : n \in {4, 6}}
    \cup {<<>>}

\* the lines of the whole-program specification
SmallLines ==
    {MkLine(1, TCP, Addr4, <<"8", "0">>, <<"4">>, 5),
     MkLine(1, TCP, Addr6, <<"0">>, <<"-", "1">>, 5),
     MkLine(1, TCP, Addr4, <<"x">>, <<"4">>, 5)}

(***************************************************************************)
(* The process table.                                                      *)
(***************************************************************************)
BadUnit == "<invalid unicode>"
Replacement == "<U+FFFD>"
TablePids == {4, 7}
OsName(pid) == IF pid = 4 THEN <<"s", "y", "s">> ELSE <<"s", "v", "c", BadUnit>>
ProcessTables == {[pid \in S |-> OsName(pid)] : S \in SUBSET TablePids}

\* OsStr::to_string_lossy().into_owned()
ToStringLossy(name) ==
    [i \in DOMAIN name |-> IF name[i] = BadUnit THEN Replacement ELSE name[i]]

\* i32 -> u32 try_into()
TryIntoU32(pid) == IF pid >= 0 THEN Ok(pid) ELSE Err

\* process_info_list.iter_mut().find(|p| p.pid == pid): the first index, 0 for None
FindPid(list, pid) ==
    LET hits == {i \in 1..Len(list) : list[i].pid = pid}
    IN IF hits = {} THEN 0 ELSE CHOOSE i \in hits : \A j \in hits : i <= j

\* a loop body that never looks for an existing record of the pid
MatchEntryAlwaysPush(list, table, port, pid) ==
    IF pid \in DOMAIN table
    THEN Append(list, [pid |-> pid,
                       name |-> ToStringLossy(table[pid]),
                       ports |-> <<port>>])
    ELSE list

\* a loop body that puts a new record in front of the list
MatchEntryPushFront(list, table, port, pid) ==
    IF pid \in DOMAIN table
    THEN IF \E i \in 1..Len(list) : list[i].pid = pid
         THEN [i \in 1..Len(list) |->
                  IF list[i].pid = pid
                  THEN [list[i] EXCEPT !.ports = Append(@, port)]
                  ELSE list[i]]
         ELSE <<[pid |-> pid,
                 name |-> ToStringLossy(table[pid]),
                 ports |-> <<port>>]>> \o list
    ELSE list

\* the body of the for loop of match_processes_to_ports, for a pid that converts
MatchEntry(list, table, port, pid) ==
    IF pid \in DOMAIN table
    THEN LET i == FindPid(list, pid)
         IN IF i # 0
            THEN [list EXCEPT ![i].ports = Append(@, port)]
            ELSE Append(list, [pid |-> pid,
                               name |-> ToStringLossy(table[pid]),
                               ports |-> <<port>>])
    ELSE list

(***************************************************************************)
(* JSON documents: an object holds its <<key, value>> members in the order  *)
(* serde writes them, an array its items; numbers and strings are written  *)
(* as they are.                                                            *)
(***************************************************************************)
JsonObject(members) == [kind |-> "object", members |-> members]
JsonArray(items) == [kind |-> "array", items |-> items]
NoDocument == [kind |-> "none"]

FieldPid == <<"p", "i", "d">>
FieldName == <<"n", "a", "m", "e">>
FieldPorts == <<"p", "o", "r", "t", "s">>
FieldProcesses == <<"p", "r", "o", "c", "e", "s", "s", "e", "s">>

\* #[derive(Serialize)] for ProcessInfo: no rename attribute, keys are the field names
SerializeProcessInfo(p) ==
    JsonObject(<< <<FieldPid, p.pid>>,
                  <<FieldName, p.name>>,
                  <<FieldPorts, JsonArray(p.ports)>> >>)

\* #[derive(Serialize)] for ProcessPortList
SerializeProcessPortList(list) ==
    JsonObject(<< <<FieldProcesses,
                    JsonArray([i \in DOMAIN list |-> SerializeProcessInfo(list[i])])>> >>)

\* a file: absent, created (truncated) without a complete document, or written
Absent == [state |-> "absent", doc |-> NoDocument]
Truncated == [state |-> "truncated", doc |-> NoDocument]
Written(doc) == [state |-> "written", doc |-> doc]

(***************************************************************************)
(* Actions of the port pipeline.                                           *)
(***************************************************************************)
Panic(msg) ==
    /\ pc' = "panic"
    /\ stderr' = Append(stderr, msg)

\* get_netstat_output: the command runs and its stdout is split into lines,
\* or it cannot be launched and expect() panics
GetNetstatOutput ==
    /\ pc = "get_netstat_output"
    /\ \/ /\ \E out \in SeqsUpTo(SmallLines, MaxLines) : netstat_output' = out
          /\ pc' = "parse_netstat_output"
          /\ stderr' = stderr
       \/ /\ Panic("Failed to run netstat")
          /\ UNCHANGED netstat_output
    /\ UNCHANGED <<line_idx, process_ports, processes, port_idx, process_info_list,
                   process_ports_json, event_log, query, fetch_result, events, event_idx,
                   extracted_events, events_json, stdout>>

\* parse_netstat_output: one iteration of `for line in output`
ParseNetstatLine ==
    /\ pc = "parse_netstat_output"
    /\ line_idx < Len(netstat_output)
    /\ line_idx' = line_idx + 1
    /\ process_ports' = process_ports \o ParseLine(netstat_output[line_idx + 1])
    /\ UNCHANGED <<pc, netstat_output, processes, port_idx, process_info_list,
                   process_ports_json, event_log, query, fetch_result, events, event_idx,
                   extracted_events, events_json, stderr, stdout>>

\* parse_netstat_output returns; main creates the System and calls
\* match_processes_to_ports
ParseNetstatReturn ==
    /\ pc = "parse_netstat_output"
    /\ line_idx = Len(netstat_output)
    /\ pc' = "refresh_processes"
    /\ UNCHANGED <<netstat_output, line_idx, process_ports, processes, port_idx,
                   process_info_list, process_ports_json, event_log, query, fetch_result, events,
                   event_idx, extracted_events, events_json, stderr, stdout>>

\* system.refresh_processes(ProcessesToUpdate::All, true); system.processes()
RefreshProcesses ==
    /\ pc = "refresh_processes"
    /\ \E table \in ProcessTables : processes' = table
    /\ pc' = "match_processes_to_ports"
    /\ UNCHANGED <<netstat_output, line_idx, process_ports, port_idx,
                   process_info_list, process_ports_json, event_log, query, fetch_result, events,
                   event_idx, extracted_events, events_json, stderr, stdout>>

\* match_processes_to_ports: one iteration of `for (port, pid) in process_ports`;
\* pid.try_into().unwrap() panics on a negative pid
MatchProcessToPort ==
    /\ pc = "match_processes_to_ports"
    /\ port_idx < Len(process_ports)
    /\ LET port == process_ports[port_idx + 1][1]
           pid == process_ports[port_idx + 1][2]
       IN IF TryIntoU32(pid).ok
          THEN /\ process_info_list' =
                      MatchEntry(process_info_list, processes, port, pid)
               /\ port_idx' = port_idx + 1
               /\ UNCHANGED <<pc, stderr>>
          ELSE /\ Panic("called Result::unwrap() on an Err value")
               /\ UNCHANGED <<process_info_list, port_idx>>
    /\ UNCHANGED <<netstat_output, line_idx, process_ports, processes,
                   process_ports_json, event_log, query, fetch_result, events, event_idx,
                   extracted_events, events_json, stdout>>

\* match_processes_to_ports returns process_info_list
MatchReturn ==
    /\ pc = "match_processes_to_ports"
    /\ port_idx = Len(process_ports)
    /\ pc' = "save_process_info_to_file"
    /\ UNCHANGED <<netstat_output, line_idx, process_ports, processes, port_idx,
                   process_info_list, process_ports_json, event_log, query, fetch_result, events,
                   event_idx, extracted_events, events_json, stderr, stdout>>

\* save_process_info_to_file, then the println! of main: File::create may
\* fail (panic), to_writer_pretty may fail after the file was created (panic)
SaveProcessInfoToFile ==
    /\ pc = "save_process_info_to_file"
    /\ \/ /\ process_ports_json' = Written(SerializeProcessPortList(process_info_list))
          /\ pc' = "build_query"
          /\ stdout' = Append(stdout, "Process and port data saved")
          /\ stderr' = stderr
       \/ /\ Panic("Unable to create file")
          /\ UNCHANGED <<process_ports_json, stdout>>
       \/ /\ Panic("Failed to write JSON to file")
          /\ process_ports_json' = Truncated
          /\ stdout' = stdout
    /\ UNCHANGED <<netstat_output, line_idx, process_ports, processes, port_idx,
                   process_info_list, event_log, query, fetch_result, events, event_idx,
                   extracted_events, events_json>>

(***************************************************************************)
(* The event log and the query main builds.                                *)
(***************************************************************************)
Threshold == 1

\* the condition with the comparison turned around
LevelConditionLessThanOrEqual == [field |-> "Level", value |-> Threshold, cmp |-> "<="]

\* Condition::filter(EventFilter::level(1, Comparison::GreaterThanOrEqual))
LevelCondition == [field |-> "Level", value |-> Threshold, cmp |-> ">="]

\* QueryList::new().with_query(Query::new().item(..).item(..).query()).build()
BuildQueryList ==
    LET conditions == <<LevelCondition>>
    IN <<[selector |-> "Application", any_of |-> conditions],
         [selector |-> "System", any_of |-> conditions]>>

\* how the log source evaluates a Comparison of an event's field with a value
Compare(cmp, field, value) ==
    CASE cmp = "=" -> field = value
      [] cmp = ">=" -> field >= value
      [] cmp = "<=" -> field <= value
      [] cmp = ">" -> field > value
      [] cmp = "<" -> field < value

\* a record is selected by an item of the query when it is in the item's
\* channel and one of the item's conditions (Condition::or) holds of it
Selects(q, rec) ==
    \E i \in DOMAIN q :
        /\ q[i].selector = rec.channel
        /\ \E c \in DOMAIN q[i].any_of :
               Compare(q[i].any_of[c].cmp, rec.level, q[i].any_of[c].value)

RECURSIVE Select(_, _)
Select(q, log) ==
    IF log = <<>> THEN <<>>
    ELSE IF Selects(q, Head(log)) THEN <<Head(log)>> \o Select(q, Tail(log))
    ELSE Select(q, Tail(log))

Channels == {"Application", "System", "Security"}
Kernel == <<"K", "e", "r", "n", "e", "l">>
NoName == <<>>
ValidEventIds == {[text |-> <<"4", "1">>, val |-> 41]}
OtherEventIdTexts == {<<"x">>}
EventIdTexts == {v.text : v \in ValidEventIds} \cup OtherEventIdTexts
Levels == 0..2

\* the records an event log of the model is made of; has_name tells whether
\* the Provider element carries a Name attribute
EventLogRecords ==
    [channel : Channels, has_name : BOOLEAN, event_id : EventIdTexts, level : Levels]

\* the records of the whole-program specification
SmallLog ==
    {[channel |-> "Application", has_name |-> TRUE, event_id |-> <<"4", "1">>, level |-> 2],
     [channel |-> "System", has_name |-> FALSE, event_id |-> <<"4", "1">>, level |-> 1],
     [channel |-> "Security", has_name |-> TRUE, event_id |-> <<"4", "1">>, level |-> 1]}

DigitChar(d) ==
    CASE d = 0 -> "0" [] d = 1 -> "1" [] d = 2 -> "2" [] d = 3 -> "3"
      [] d = 4 -> "4" [] d = 5 -> "5" [] d = 6 -> "6" [] d = 7 -> "7"
      [] d = 8 -> "8" [] d = 9 -> "9"

RECURSIVE ToDecimal(_)
ToDecimal(n) ==
    IF n < 10 THEN <<DigitChar(n)>>
    ELSE Append(ToDecimal(n \div 10), DigitChar(n % 10))

\* event.to_string(): the XML of the event, as the document the deserializer
\* sees: the Provider's Name (when it has one) and the texts of the EventID and
\* Level elements of the System element
EventToString(rec) ==
    [provider |-> IF rec.has_name THEN <<Kernel>> ELSE <<>>,
     event_id |-> rec.event_id,
     level |-> ToDecimal(rec.level)]

\* a deserializer that lets a Provider without a Name through
FromStrEventNameOptional(xml) ==
    LET event_id == ParseU32(xml.event_id)
        level == ParseU32(xml.level)
    IN IF event_id.ok /\ level.ok
       THEN [ok |-> TRUE,
             val |-> [event_id |-> event_id.val,
                      provider_name |-> IF xml.provider # <<>>
                                        THEN xml.provider[1] ELSE <<>>,
                      level |-> level.val]]
       ELSE [ok |-> FALSE,
             val |-> [event_id |-> 0, provider_name |-> <<>>, level |-> 0]]

\* serde_xml_rs::from_str::<Event>: every field of System and Provider is
\* required, EventID and Level must parse as u32
FromStrEvent(xml) ==
    LET event_id == ParseU32(xml.event_id)
        level == ParseU32(xml.level)
    IN IF xml.provider # <<>> /\ event_id.ok /\ level.ok
       THEN [ok |-> TRUE,
             val |-> [event_id |-> event_id.val,
                      provider_name |-> xml.provider[1],
                      level |-> level.val]]
       ELSE [ok |-> FALSE,
             val |-> [event_id |-> 0, provider_name |-> <<>>, level |-> 0]]

LowerCase == <<"a", "b", "c", "d", "e", "f", "g", "h", "i", "j", "k", "l", "m",
               "n", "o", "p", "q", "r", "s", "t", "u", "v", "w", "x", "y", "z">>
UpperCase == <<"A", "B", "C", "D", "E", "F", "G", "H", "I", "J", "K", "L", "M",
               "N", "O", "P", "Q", "R", "S", "T", "U", "V", "W", "X", "Y", "Z">>

\* char::to_ascii_uppercase
ToAsciiUppercase(c) ==
    IF \E i \in 1..26 : LowerCase[i] = c
    THEN UpperCase[CHOOSE i \in 1..26 : LowerCase[i] = c]
    ELSE c

\* serde's RenameRule::PascalCase applied to a field name: '_' is dropped and
\* the character after it (and the first one) is upper-cased
RECURSIVE PascalCaseFrom(_, _, _)
PascalCaseFrom(field, i, capitalize) ==
    IF i > Len(field) THEN <<>>
    ELSE IF field[i] = "_" THEN PascalCaseFrom(field, i + 1, TRUE)
    ELSE IF capitalize
         THEN <<ToAsciiUppercase(field[i])>> \o PascalCaseFrom(field, i + 1, FALSE)
         ELSE <<field[i]>> \o PascalCaseFrom(field, i + 1, FALSE)

FieldEventId == <<"e", "v", "e", "n", "t", "_", "i", "d">>
FieldProviderName ==
    <<"p", "r", "o", "v", "i", "d", "e", "r", "_", "n", "a", "m", "e">>
FieldLevel == <<"l", "e", "v", "e", "l">>

\* no renaming: the keys are the Rust field names
RenameEventInfoFieldNone(field) == field

\* #[serde(rename_all = "PascalCase")] on EventInfo
RenameEventInfoField(field) == PascalCaseFrom(field, 1, TRUE)

\* #[derive(Serialize)] for EventInfo
SerializeEventInfo(e) ==
    JsonObject(<< <<RenameEventInfoField(FieldEventId), e.event_id>>,
                  <<RenameEventInfoField(FieldProviderName), e.provider_name>>,
                  <<RenameEventInfoField(FieldLevel), e.level>> >>)

\* a writer that wraps the array in an object, as ProcessPortList does
SerializeEventsWrapped(list) ==
    JsonObject(<< <<<<"e", "v", "e", "n", "t", "s">>,
                    JsonArray([i \in DOMAIN list |-> SerializeEventInfo(list[i])])>> >>)

\* to_writer_pretty(writer, &events): a Vec serializes as an array
SerializeEvents(list) ==
    JsonArray([i \in DOMAIN list |-> SerializeEventInfo(list[i])])

(***************************************************************************)
(* Actions of the event pipeline.                                          *)
(***************************************************************************)
\* main builds the conditions and the QueryList
BuildQuery ==
    /\ pc = "build_query"
    /\ query' = BuildQueryList
    /\ pc' = "fetch_and_parse_events"
    /\ UNCHANGED <<netstat_output, line_idx, process_ports, processes, port_idx,
                   process_info_list, process_ports_json, event_log, fetch_result, events,
                   event_idx, extracted_events, events_json, stderr, stdout>>

\* fetch_and_parse_events, WinEvents::get(query): the log source delivers the
\* records of the log the query selects, or the fetch fails and the function
\* returns Vec::new() after a diagnostic
WinEventsGet(records) ==
    /\ pc = "fetch_and_parse_events"
    /\ \/ /\ \E log \in SeqsUpTo(records, MaxEvents) :
                /\ event_log' = log
                /\ events' = Select(query, log)
          /\ fetch_result' = "Ok"
          /\ pc' = "parse_events"
          /\ stderr' = stderr
       \/ /\ fetch_result' = "Err"
          /\ pc' = "save_events_to_file"
          /\ stderr' = Append(stderr, "Error fetching events")
          /\ UNCHANGED <<event_log, events>>
    /\ UNCHANGED <<netstat_output, line_idx, process_ports, processes, port_idx,
                   process_info_list, process_ports_json, query, event_idx,
                   extracted_events, events_json, stdout>>

\* fetch_and_parse_events: one iteration of `for event in events`
ParseEvent ==
    /\ pc = "parse_events"
    /\ event_idx < Len(events)
    /\ LET event_xml == EventToString(events[event_idx + 1])
           parsed_event == FromStrEvent(event_xml)
       IN IF parsed_event.ok
          THEN /\ extracted_events' = Append(extracted_events, parsed_event.val)
               /\ stderr' = stderr
          ELSE /\ stderr' = Append(stderr, "Error parsing event")
               /\ extracted_events' = extracted_events
    /\ event_idx' = event_idx + 1
    /\ UNCHANGED <<pc, netstat_output, line_idx, process_ports, processes, port_idx,
                   process_info_list, process_ports_json, event_log, query, fetch_result, events,
                   events_json, stdout>>

\* fetch_and_parse_events returns extracted_events
FetchReturn ==
    /\ pc = "parse_events"
    /\ event_idx = Len(events)
    /\ pc' = "save_events_to_file"
    /\ UNCHANGED <<netstat_output, line_idx, process_ports, processes, port_idx,
                   process_info_list, process_ports_json, event_log, query, fetch_result, events,
                   event_idx, extracted_events, events_json, stderr, stdout>>

\* save_events_to_file and the if let of main: the file is written, or
\* File::create fails, or to_writer_pretty fails after the file was created;
\* an Err is printed and main returns normally
SaveEventsToFile ==
    /\ pc = "save_events_to_file"
    /\ \/ /\ events_json' = Written(SerializeEvents(extracted_events))
          /\ stdout' = Append(stdout, "Events saved")
          /\ stderr' = stderr
       \/ /\ events_json' = events_json
          /\ stderr' = Append(stderr, "Error saving events to file")
          /\ stdout' = stdout
       \/ /\ events_json' = Truncated
          /\ stderr' = Append(stderr, "Error saving events to file")
          /\ stdout' = stdout
    /\ pc' = "done"
    /\ UNCHANGED <<netstat_output, line_idx, process_ports, processes, port_idx,
                   process_info_list, process_ports_json, event_log, query, fetch_result, events,
                   event_idx, extracted_events>>

(***************************************************************************)
(* Specifications.                                                         *)
(***************************************************************************)
Start ==
    /\ netstat_output = <<>>
    /\ line_idx = 0
    /\ process_ports = <<>>
    /\ processes = <<>>
    /\ port_idx = 0
    /\ process_info_list = <<>>
    /\ process_ports_json = Absent
    /\ event_log = <<>>
    /\ query = <<>>
    /\ fetch_result = "none"
    /\ events = <<>>
    /\ event_idx = 0
    /\ extracted_events = <<>>
    /\ events_json = Absent
    /\ stderr = <<>>
    /\ stdout = <<>>

\* the whole program: main from its first statement
Init ==
    /\ pc = "get_netstat_output"
    /\ Start

Next ==
    \/ GetNetstatOutput
    \/ ParseNetstatLine
    \/ ParseNetstatReturn
    \/ RefreshProcesses
    \/ MatchProcessToPort
    \/ MatchReturn
    \/ SaveProcessInfoToFile
    \/ BuildQuery
    \/ WinEventsGet(SmallLog)
    \/ ParseEvent
    \/ FetchReturn
    \/ SaveEventsToFile

Spec == Init /\ [][Next]_vars

\* parse_netstat_output called on any output made of the lines of LineSet
InitParse ==
    /\ pc = "parse_netstat_output"
    /\ netstat_output \in SeqsUpTo(LineSet, MaxLines)
    /\ line_idx = 0
    /\ process_ports = <<>>
    /\ processes = <<>>
    /\ port_idx = 0
    /\ process_info_list = <<>>
    /\ process_ports_json = Absent
    /\ event_log = <<>>
    /\ query = <<>>
    /\ fetch_result = "none"
    /\ events = <<>>
    /\ event_idx = 0
    /\ extracted_events = <<>>
    /\ events_json = Absent
    /\ stderr = <<>>
    /\ stdout = <<>>

NextParse == ParseNetstatLine \/ ParseNetstatReturn

SpecParse == InitParse /\ [][NextParse]_vars

\* match_processes_to_ports called on any entries the parser can produce
EntryPorts == {80, 443}
EntryPids == {-1, 4, 7, 9}
EntrySet == {<<port, pid>> : port \in EntryPorts, pid \in EntryPids}

InitMatch ==
    /\ pc = "refresh_processes"
    /\ process_ports \in SeqsUpTo(EntrySet, MaxEntries)
    /\ netstat_output = <<>>
    /\ line_idx = 0
    /\ processes = <<>>
    /\ port_idx = 0
    /\ process_info_list = <<>>
    /\ process_ports_json = Absent
    /\ event_log = <<>>
    /\ query = <<>>
    /\ fetch_result = "none"
    /\ events = <<>>
    /\ event_idx = 0
    /\ extracted_events = <<>>
    /\ events_json = Absent
    /\ stderr = <<>>
    /\ stdout = <<>>

NextMatch == RefreshProcesses \/ MatchProcessToPort \/ MatchReturn

SpecMatch == InitMatch /\ [][NextMatch]_vars

\* the event pipeline of main on any log made of EventLogRecords
InitEvents ==
    /\ pc = "build_query"
    /\ Start

NextEvents ==
    \/ BuildQuery
    \/ WinEventsGet(EventLogRecords)
    \/ ParseEvent
    \/ FetchReturn
    \/ SaveEventsToFile

SpecEvents == InitEvents /\ [][NextEvents]_vars

(***************************************************************************)
(* Properties.                                                             *)
(***************************************************************************)
Printed(out, msg) == \E i \in DOMAIN out : out[i] = msg
Ended == pc \in {"done", "panic"}
EmptyProcessPortList ==
    Written(JsonObject(<< <<FieldProcesses, JsonArray(<<>>)>> >>))
EmptyEvents == Written(JsonArray(<<>>))
ListerFailed == Printed(stderr, "Failed to run netstat")
PortPipelineFailed ==
    \/ ListerFailed
    \/ Printed(stderr, "called Result::unwrap() on an Err value")
    \/ Printed(stderr, "Unable to create file")
    \/ Printed(stderr, "Failed to write JSON to file")
EventPipelineFailed ==
    \/ fetch_result = "Err"
    \/ Printed(stderr, "Error parsing event")
    \/ Printed(stderr, "Error saving events to file")

\* C1: once the program has ended after the netstat command could not be
\* launched, process_ports.json is written and holds {"processes": []}.
C1_ListerFailureStillWrites ==
    (Ended /\ ListerFailed) => process_ports_json = EmptyProcessPortList

\* C2: the pipelines are isolated: once the program has ended, a failure of
\* the port pipeline has not kept the event pipeline from reaching its write
\* of events.json, and a failure of the event pipeline has not kept
\* process_ports.json from being written.
C2_PipelinesIsolated ==
    Ended =>
        /\ PortPipelineFailed =>
               \/ events_json.state = "written"
               \/ Printed(stderr, "Error saving events to file")
        /\ EventPipelineFailed => process_ports_json.state = "written"

\* C3: an iteration of match_processes_to_ports on an entry whose process id
\* is not in the process table adds no record, leaves the result list as it
\* is, raises no error and moves on to the next entry.
C3_AbsentPidIsSkipped ==
    [][(/\ pc = "match_processes_to_ports"
        /\ port_idx < Len(process_ports)
        /\ process_ports[port_idx + 1][2] \notin DOMAIN processes)
       => (/\ process_info_list' = process_info_list
           /\ pc' = "match_processes_to_ports"
           /\ port_idx' = port_idx + 1)]_vars

RECURSIVE PortsOfPid(_, _)
PortsOfPid(entries, pid) ==
    IF entries = <<>> THEN <<>>
    ELSE (IF Head(entries)[2] = pid THEN <<Head(entries)[1]>> ELSE <<>>)
         \o PortsOfPid(Tail(entries), pid)

Processed == SubSeq(process_ports, 1, port_idx)

\* C4: for every process id of the process table that occurs in N of the
\* entries processed so far (all of them once the function returns), the
\* result list holds exactly one record of that id, and its ports are the
\* ports of those N entries in their order, repeated ports kept.
C4_OneRecordWithPortsInOrder ==
    \A pid \in DOMAIN processes :
        LET ports == PortsOfPid(Processed, pid)
            recs == {i \in 1..Len(process_info_list) : process_info_list[i].pid = pid}
        IN /\ ports # <<>> =>
                  /\ Cardinality(recs) = 1
                  /\ \A i \in recs : process_info_list[i].ports = ports
           /\ ports = <<>> => recs = {}

\* a returned result in which one process got the same port twice, then another
C4_Witness ==
    /\ pc = "save_process_info_to_file"
    /\ port_idx = Len(process_ports)
    /\ \E i \in 1..Len(process_info_list) :
           /\ Len(process_info_list[i].ports) = 3
           /\ process_info_list[i].ports[1] = process_info_list[i].ports[2]
           /\ process_info_list[i].ports[2] # process_info_list[i].ports[3]

\* the lines C5 is about, with the entry each one denotes: at least 5 fields,
\* a local address ending in ':' and a valid u16, a valid i32 as fifth field
WellFormedLines ==
    {[line |-> MkLine(l, p, a, port.text, pid.text, n),
      entry |-> <<port.val, pid.val>>] :
        l \in 0..1, p \in {TCP, Proto}, a \in {Addr4, Addr6},
        port \in ValidPorts, pid \in ValidPids, n \in 5..6}

EmitsEntryOf(lines) ==
    \A w \in lines :
        (/\ pc = "parse_netstat_output"
         /\ line_idx < Len(netstat_output)
         /\ netstat_output[line_idx + 1] = w.line)
        => process_ports' = Append(process_ports, w.entry)

\* C5 as stated: every well-formed line makes parse_netstat_output push
\* exactly one entry, with the line's port and process id, after the entries
\* of the lines before it.
C5_EveryWellFormedLineEmits == [][EmitsEntryOf(WellFormedLines)]_vars

\* C5, amended: every well-formed line that does not begin with the
\* characters "Proto" makes parse_netstat_output push exactly one entry, with
\* the line's port and process id, after the entries of the lines before it.
C5_WellFormedNonHeaderLineEmits ==
    [][EmitsEntryOf({w \in WellFormedLines :
                        SubSeq(w.line, 1, 5) # <<"P", "r", "o", "t", "o">>})]_vars

\* two well-formed lines, the first with a bracketed IPv6 address, parsed in order
C5_Witness ==
    /\ pc = "parse_netstat_output"
    /\ line_idx = 2
    /\ netstat_output[1] = MkLine(1, TCP, Addr6, <<"8", "0">>, <<"4">>, 5)
    /\ netstat_output[2] =
           MkLine(1, TCP, Addr4, <<"6", "5", "5", "3", "5">>, <<"-", "1">>, 5)
    /\ process_ports = << <<80, 4>>, <<65535, -1>> >>

\* the structurally valid records and what each projects to
StructurallyValid(rec) ==
    /\ rec.has_name
    /\ \E v \in ValidEventIds : v.text = rec.event_id

Projection(rec) ==
    [event_id |-> (CHOOSE v \in ValidEventIds : v.text = rec.event_id).val,
     provider_name |-> Kernel,
     level |-> rec.level]

RECURSIVE ProjectValid(_)
ProjectValid(recs) ==
    IF recs = <<>> THEN <<>>
    ELSE (IF StructurallyValid(Head(recs)) THEN <<Projection(Head(recs))>> ELSE <<>>)
         \o ProjectValid(Tail(recs))

ParseDiagnostics == Cardinality({i \in DOMAIN stderr : stderr[i] = "Error parsing event"})

\* C6: after any number of delivered entries has been processed (all of them
\* once the function returns), extracted_events is the projection of the
\* structurally valid ones among them, in delivery order, one diagnostic was
\* printed for each invalid one, and records plus diagnostics equals the
\* number of entries processed.
C6_ValidProjectedInvalidDiagnosed ==
    LET done == SubSeq(events, 1, event_idx)
    IN /\ extracted_events = ProjectValid(done)
       /\ ParseDiagnostics = Cardinality({i \in DOMAIN done : ~StructurallyValid(done[i])})
       /\ Len(extracted_events) + ParseDiagnostics = event_idx
       /\ pc \in {"save_events_to_file", "done"} => event_idx = Len(events)

\* an invalid entry followed by a valid one: the valid one is still returned
C6_Witness ==
    /\ pc = "save_events_to_file"
    /\ Len(events) = 2
    /\ ~StructurallyValid(events[1])
    /\ StructurallyValid(events[2])
    /\ Len(extracted_events) = 1
    /\ ParseDiagnostics = 1

QueriedChannels == {"Application", "System"}
AtMostThreshold(rec) == rec.channel \in QueriedChannels /\ rec.level <= Threshold
AtLeastThreshold(rec) == rec.channel \in QueriedChannels /\ rec.level >= Threshold

\* C7 as stated: the query delivers exactly the records of the Application
\* and System channels whose level is numerically at most the threshold 1.
C7_KeepsLevelAtMostThreshold ==
    fetch_result = "Ok" => events = SelectSeq(event_log, AtMostThreshold)

\* C7, amended: the query delivers exactly the records of the Application and
\* System channels whose level is numerically at least the threshold 1.
C7_KeepsLevelAtLeastThreshold ==
    fetch_result = "Ok" => events = SelectSeq(event_log, AtLeastThreshold)

\* a log with a level 0 record, which is left out, and a level 2 record, which is kept
C7_Witness ==
    /\ fetch_result = "Ok"
    /\ Len(event_log) = 2
    /\ event_log[1].channel = "Application" /\ event_log[1].level = 0
    /\ event_log[2].channel = "System" /\ event_log[2].level = 2
    /\ events = <<event_log[2]>>

KeysOf(object) == [i \in DOMAIN object.members |-> object.members[i][1]]

EventsJsonIsArrayWithKeys(keys) ==
    events_json.state = "written" =>
        /\ events_json.doc.kind = "array"
        /\ \A i \in DOMAIN events_json.doc.items :
               /\ events_json.doc.items[i].kind = "object"
               /\ KeysOf(events_json.doc.items[i]) = keys

\* C8 as stated: the root of events.json is a bare array and every object in
\* it has exactly the keys event_id, provider_name and level.
C8_SnakeCaseKeys ==
    EventsJsonIsArrayWithKeys(<<FieldEventId, FieldProviderName, FieldLevel>>)

\* C8, amended: the root of events.json is a bare array and every object in
\* it has exactly the keys EventId, ProviderName and Level.
C8_PascalCaseKeys ==
    EventsJsonIsArrayWithKeys(
        << <<"E", "v", "e", "n", "t", "I", "d">>,
           <<"P", "r", "o", "v", "i", "d", "e", "r", "N", "a", "m", "e">>,
           <<"L", "e", "v", "e", "l">> >>)

\* events.json written with an event in it
C8_Witness ==
    /\ pc = "done"
    /\ events_json.state = "written"
    /\ Len(events_json.doc.items) >= 1

NothingFetched == fetch_result = "Err" \/ (fetch_result = "Ok" /\ events = <<>>)

ReturnsEmptyWithoutAbort ==
    /\ fetch_result = "Err" =>
           /\ Printed(stderr, "Error fetching events")
           /\ pc \in {"save_events_to_file", "done"}
    /\ (NothingFetched /\ pc \in {"save_events_to_file", "done"}) =>
           extracted_events = <<>>

RECURSIVE FirstSeen(_, _)
FirstSeen(entries, seen) ==
    IF entries = <<>> THEN <<>>
    ELSE LET pid == Head(entries)[2]
         IN IF pid \in DOMAIN processes /\ pid \notin seen
            THEN <<pid>> \o FirstSeen(Tail(entries), seen \cup {pid})
            ELSE FirstSeen(Tail(entries), seen)

\* C10: after any prefix of the entries has been processed, the process ids
\* of the result list are the distinct ids, in order of first occurrence, of
\* the processed entries whose id is in the process table; so no id is in two
\* records.
C10_FirstSeenOrder ==
    /\ [i \in 1..Len(process_info_list) |-> process_info_list[i].pid]
           = FirstSeen(Processed, {})
    /\ \A i, j \in 1..Len(process_info_list) :
           process_info_list[i].pid = process_info_list[j].pid => i = j

\* pid 7 seen first, then pid 4, then pid 7 again: the order stays 7, 4
C10_Witness ==
    /\ pc = "match_processes_to_ports"
    /\ port_idx = 3
    /\ process_ports[1][2] = 7 /\ process_ports[2][2] = 4 /\ process_ports[3][2] = 7
    /\ Len(process_info_list) = 2
    /\ process_info_list[1].pid = 7
    /\ process_info_list[2].pid = 4

====
